---- MODULE Spec2Model ----
(***************************************************************************)
(* Model of app.py: the two HTML sanitizers (sanitize_html_, the strict    *)
(* eight-stage one, and sanitize_html, the light one the application       *)
(* calls) and the Streamlit submit handler that fetches, sanitizes and     *)
(* renders a page.                                                         *)
(*                                                                         *)
(* HTML text is a sequence of tokens (start tag with its attributes, end   *)
(* tag, text, comment).  A string (attribute name, attribute value) is a   *)
(* sequence of lexemes; a known prefix ("on", "#", "mailto:",              *)
(* "javascript:", "https://noice://") is always a lexeme of its own, so    *)
(* str.startswith is a test of the first lexeme.  The parsed document      *)
(* (the soup) is the sequence of its nodes in document order, each with    *)
(* its depth below the root.                                               *)
(***************************************************************************)
EXTENDS Naturals, Sequences, FiniteSets, TLC

VARIABLES
    html,       \* the HTML text at hand: the sanitizer's argument / the fetched page (None before)
    outs,       \* sanitizer calls: the results of the successive sanitizer calls on html
    mode,       \* sanitizer calls: which sanitizer is applied ("strict" = sanitize_html_, "light" = sanitize_html)
    pc,         \* submit handler: position in the script
    user_input, \* submit handler: the text typed in the form, split at "://"
    sanitized,  \* submit handler: the local variable sanitized (None before)
    viewer,     \* submit handler: the strings passed to components.html in this run
    messages    \* submit handler: the st.error / st.warning / st.info / st.success calls of this run

vars == <<html, outs, mode, pc, user_input, sanitized, viewer, messages>>


\* ------------------------------------------------------------------ bounds
MaxLen == 3

\* --------------------------------------------------------------- strings
StartsWith(s, lex) == Len(s) > 0 /\ s[1] = lex

LowerLex(l) ==
    CASE l = "ON" -> "on"
      [] l = "LOAD" -> "load"
      [] l = "SUBMIT" -> "submit"
      [] l = "DIV" -> "div"
      [] l = "Comment" -> "comment"
      [] OTHER -> l

Lower(s) == IF s = <<>> THEN <<>> ELSE <<LowerLex(s[1])>> \o Tail(s)

\* ---------------------------------------------------------------- tokens
StartTok(name, attrs) == [k |-> "start", name |-> name, attrs |-> attrs, data |-> ""]
EndTok(name) == [k |-> "end", name |-> name, attrs |-> <<>>, data |-> ""]
TextTok(data) == [k |-> "text", name |-> "", attrs |-> <<>>, data |-> data]
CommentTok(data) == [k |-> "comment", name |-> "", attrs |-> <<>>, data |-> data]

\* Python's None where a text is expected: no text is equal to it
None == <<[k |-> "None", name |-> "", attrs |-> <<>>, data |-> ""]>>

\* ----------------------------------------------------------------- nodes
TagNode(name, attrs, depth) ==
    [kind |-> "tag", name |-> name, attrs |-> attrs, pieces |-> <<>>, depth |-> depth]
TextNode(pieces, depth) ==
    [kind |-> "text", name |-> "", attrs |-> <<>>, pieces |-> pieces, depth |-> depth]
CommentNode(tok, depth) ==
    [kind |-> "comment", name |-> "", attrs |-> <<>>, pieces |-> <<tok>>, depth |-> depth]

\* the function f on 1..n as a sequence
Tuple(f) ==
    LET n == Cardinality(DOMAIN f)
        F[i \in 0..n] == IF i = 0 THEN <<>> ELSE Append(F[i-1], f[i])
    IN F[n]

\* the elements of s at the indices in keep, in order
FilterIdx(s, keep) ==
    LET F[i \in 0..Len(s)] ==
            IF i = 0 THEN <<>>
            ELSE IF i \in keep THEN Append(F[i-1], s[i]) ELSE F[i-1]
    IN F[Len(s)]

\* attribute dictionaries: ordered, names unique
HasAttr(attrs, n) == \E i \in 1..Len(attrs) : attrs[i][1] = n
GetAttr(attrs, n, default) ==
    IF HasAttr(attrs, n)
    THEN attrs[CHOOSE i \in 1..Len(attrs) : attrs[i][1] = n][2]
    ELSE default
SetAttr(attrs, n, v) ==
    IF HasAttr(attrs, n)
    THEN Tuple([i \in 1..Len(attrs) |-> IF attrs[i][1] = n THEN <<n, v>> ELSE attrs[i]])
    ELSE Append(attrs, <<n, v>>)
AttrNames(attrs) == {attrs[i][1] : i \in 1..Len(attrs)}
DelAttrs(attrs, gone) == FilterIdx(attrs, {i \in 1..Len(attrs) : attrs[i][1] \notin gone})
DelAttr(attrs, n) == DelAttrs(attrs, {n})

\* ---------------------------------------------------------------- parser
VoidElements == {"area", "base", "br", "col", "embed", "hr", "img", "input",
                 "link", "meta", "param", "source", "track", "wbr"}
CDataElements == {"script", "style"}

ParseAttrs(raw) ==
    LET F[i \in 0..Len(raw)] ==
            IF i = 0 THEN <<>>
            ELSE SetAttr(F[i-1], Lower(raw[i][1]), raw[i][2])
    IN F[Len(raw)]

LastIndexOf(stack, name) ==
    CHOOSE i \in 1..Len(stack) :
        stack[i] = name /\ \A j \in (i+1)..Len(stack) : stack[j] # name

ParseStep(st, t) ==
    LET d == Len(st.stack)
        n == Len(st.nodes)
        name == LowerLex(t.name)
        addText ==
            IF st.txt
            THEN [st.nodes EXCEPT ![n].pieces = Append(@, t)]
            ELSE Append(st.nodes, TextNode(<<t>>, d))
    IN
    IF st.cdata
    THEN IF t.k = "end" /\ name = st.stack[d]
         THEN [st EXCEPT !.stack = SubSeq(@, 1, d - 1), !.cdata = FALSE, !.txt = FALSE]
         ELSE [st EXCEPT !.nodes = addText, !.txt = TRUE]
    ELSE CASE t.k = "start" ->
              [nodes |-> Append(st.nodes, TagNode(name, ParseAttrs(t.attrs), d)),
               stack |-> IF name \in VoidElements THEN st.stack ELSE Append(st.stack, name),
               cdata |-> name \in CDataElements,
               txt |-> FALSE]
           [] t.k = "end" ->
              [st EXCEPT !.stack = IF \E i \in 1..d : st.stack[i] = name
                                   THEN SubSeq(@, 1, LastIndexOf(st.stack, name) - 1)
                                   ELSE @,
                         !.txt = FALSE]
           [] t.k = "text" ->
              [st EXCEPT !.nodes = addText, !.txt = TRUE]
           [] t.k = "comment" ->
              [st EXCEPT !.nodes = Append(@, CommentNode(t, d)), !.txt = FALSE]

Parse(text) ==
    LET F[i \in 0..Len(text)] ==
            IF i = 0
            THEN [nodes |-> <<>>, stack |-> <<>>, cdata |-> FALSE, txt |-> FALSE]
            ELSE ParseStep(F[i-1], text[i])
    IN F[Len(text)].nodes

\* ------------------------------------------------------------ serializer
HasChildren(soup, i) == i < Len(soup) /\ soup[i+1].depth > soup[i].depth

Closers(stack, d) ==
    Tuple([j \in 1..(Len(stack) - d) |-> EndTok(stack[Len(stack) + 1 - j])])

Serialize(soup) ==
    LET F[i \in 0..Len(soup)] ==
            IF i = 0 THEN [toks |-> <<>>, stack |-> <<>>]
            ELSE LET prev == F[i-1]
                     node == soup[i]
                     d == node.depth
                     closed == prev.toks \o Closers(prev.stack, d)
                     open == SubSeq(prev.stack, 1, d)
                 IN IF node.kind = "tag"
                    THEN [toks |-> Append(closed, StartTok(node.name, node.attrs)),
                          stack |-> IF node.name \in VoidElements /\ ~HasChildren(soup, i)
                                    THEN open ELSE Append(open, node.name)]
                    ELSE [toks |-> closed \o node.pieces, stack |-> open]
        last == F[Len(soup)]
    IN last.toks \o Closers(last.stack, 0)

\* ------------------------------------------------------- tree operations
AttrHref == <<"href">>
AttrSrc == <<"src">>
AttrSrcset == <<"srcset">>
AttrAlt == <<"alt">>
AttrType == <<"type">>
AttrAction == <<"action">>
AttrMethod == <<"method">>
AttrDisabled == <<"disabled">>
AttrStyle == <<"style">>
AttrHttpEquiv == <<"http-equiv">>

IsTag(node, name) == node.kind = "tag" /\ node.name = name

\* node j lies in the subtree below node i
IsDesc(soup, j, i) == i < j /\ \A k \in (i+1)..j : soup[k].depth > soup[i].depth

\* for tag in soup.find_all(name): tag.decompose()
DecomposeAll(soup, name) ==
    FilterIdx(soup, {j \in 1..Len(soup) :
        ~\E i \in 1..j : IsTag(soup[i], name) /\ (i = j \/ IsDesc(soup, j, i))})

DecomposeEach(soup, names) ==
    LET F[i \in 0..Len(names)] ==
            IF i = 0 THEN soup ELSE DecomposeAll(F[i-1], names[i])
    IN F[Len(names)]

\* the node with its attribute dictionary replaced
WithAttrs(node, attrs) == [node EXCEPT !.attrs = attrs]

InsertAt(soup, pos, items) ==
    SubSeq(soup, 1, pos) \o items \o SubSeq(soup, pos + 1, Len(soup))

\* --------------------------------------------------- sanitize_html_ stages
DangerousTags == <<"script", "iframe", "object", "embed", "noscript", "base">>
MediaTags == <<"video", "audio", "source", "track">>
SubmitTypes == {<<"submit">>, <<"image">>, <<"button">>}
NoticeText ==
    "/* This page was sanitized: scripts, iframes, external links and auto-fetching resources removed */"
NoticeStyle ==
    <<"font-family:monospace; font-size:12px; opacity:0.85; padding:6px; border-bottom:1px solid #ddd;">>
ImageDisabled == <<"[image disabled]">>
MARK == "https://noice://"

RemoveDangerousTags(soup) == DecomposeEach(soup, DangerousTags)

RemoveLinkMeta(soup) ==
    LET nolink == DecomposeAll(soup, "link")
        \* both branches of the http-equiv test decompose the meta
        refresh(m) == LET he == GetAttr(m.attrs, AttrHttpEquiv, <<>>)
                      IN he # <<>> /\ Lower(he) = <<"refresh">>
    IN FilterIdx(nolink, {j \in 1..Len(nolink) :
        ~\E i \in 1..j : /\ IsTag(nolink[i], "meta")
                         /\ (refresh(nolink[i]) \/ ~refresh(nolink[i]))
                         /\ (i = j \/ IsDesc(nolink, j, i))})

StripSrcset(soup) ==
    Tuple([i \in 1..Len(soup) |->
        IF soup[i].kind = "tag" /\ HasAttr(soup[i].attrs, AttrSrcset)
        THEN WithAttrs(soup[i], DelAttr(soup[i].attrs, AttrSrcset))
        ELSE soup[i]])

NeutralizeImages(soup) ==
    Tuple([i \in 1..Len(soup) |->
        IF IsTag(soup[i], "img")
        THEN WithAttrs(soup[i],
                DelAttrs(soup[i].attrs,
                         {AttrSrc, AttrSrcset}
                            \cup {a \in AttrNames(soup[i].attrs) : StartsWith(a, "on")}))
        ELSE soup[i]])

\* faulty variant: an empty href is taken for "no href" and left alone
NeutralizeNonEmptyHrefs(soup) ==
    Tuple([i \in 1..Len(soup) |->
        IF soup[i].kind = "tag" /\ HasAttr(soup[i].attrs, AttrHref)
        THEN LET href == GetAttr(soup[i].attrs, AttrHref, <<>>)
             IN IF \/ href = <<>>
                   \/ StartsWith(href, "#")
                   \/ StartsWith(href, "mailto:")
                   \/ StartsWith(href, "javascript:")
                THEN soup[i]
                ELSE WithAttrs(soup[i], SetAttr(soup[i].attrs, AttrHref, <<"#">>))
        ELSE soup[i]])

\* faulty variant: the href is prefixed with the inert marker instead of collapsed to "#"
NeutralizeHrefsByPrefix(soup) ==
    Tuple([i \in 1..Len(soup) |->
        IF soup[i].kind = "tag" /\ HasAttr(soup[i].attrs, AttrHref)
        THEN LET href == GetAttr(soup[i].attrs, AttrHref, <<>>)
             IN IF \/ StartsWith(href, "#")
                   \/ StartsWith(href, "mailto:")
                   \/ StartsWith(href, "javascript:")
                THEN soup[i]
                ELSE WithAttrs(soup[i], SetAttr(soup[i].attrs, AttrHref, <<MARK>> \o href))
        ELSE soup[i]])

NeutralizeHrefs(soup) ==
    Tuple([i \in 1..Len(soup) |->
        IF soup[i].kind = "tag" /\ HasAttr(soup[i].attrs, AttrHref)
        THEN LET href == GetAttr(soup[i].attrs, AttrHref, <<>>)
             IN IF \/ StartsWith(href, "#")
                   \/ StartsWith(href, "mailto:")
                   \/ StartsWith(href, "javascript:")
                THEN soup[i]
                ELSE WithAttrs(soup[i], SetAttr(soup[i].attrs, AttrHref, <<"#">>))
        ELSE soup[i]])

StripSrc(soup) ==
    Tuple([i \in 1..Len(soup) |->
        IF soup[i].kind = "tag" /\ HasAttr(soup[i].attrs, AttrSrc)
        THEN WithAttrs(soup[i], DelAttr(soup[i].attrs, AttrSrc))
        ELSE soup[i]])

\* faulty variant: only the img elements are looked at
StripEventHandlersOfImages(soup) ==
    Tuple([i \in 1..Len(soup) |->
        IF IsTag(soup[i], "img")
        THEN WithAttrs(soup[i],
                DelAttrs(soup[i].attrs,
                         {a \in AttrNames(soup[i].attrs) : StartsWith(Lower(a), "on")}))
        ELSE soup[i]])

StripEventHandlers(soup) ==
    Tuple([i \in 1..Len(soup) |->
        IF soup[i].kind = "tag"
        THEN WithAttrs(soup[i],
                DelAttrs(soup[i].attrs,
                         {a \in AttrNames(soup[i].attrs) : StartsWith(Lower(a), "on")}))
        ELSE soup[i]])

InForm(soup, j) == \E i \in 1..Len(soup) : IsTag(soup[i], "form") /\ IsDesc(soup, j, i)

\* faulty variant: the type of an input is compared as written, not lower-cased
DisableFormsCaseSensitive(soup) ==
    Tuple([j \in 1..Len(soup) |->
        LET n == soup[j] IN
        IF IsTag(n, "form")
        THEN [n EXCEPT !.attrs = SetAttr(SetAttr(@, AttrAction, <<"#">>), AttrMethod, <<"get">>)]
        ELSE IF /\ IsTag(n, "input")
                /\ InForm(soup, j)
                /\ GetAttr(n.attrs, AttrType, <<>>) \in SubmitTypes
        THEN [n EXCEPT !.attrs = SetAttr(@, AttrDisabled, <<"disabled">>)]
        ELSE IF IsTag(n, "button") /\ InForm(soup, j)
        THEN [n EXCEPT !.attrs = SetAttr(@, AttrDisabled, <<"disabled">>)]
        ELSE n])

DisableForms(soup) ==
    Tuple([j \in 1..Len(soup) |->
        LET n == soup[j] IN
        IF IsTag(n, "form")
        THEN [n EXCEPT !.attrs = SetAttr(SetAttr(@, AttrAction, <<"#">>), AttrMethod, <<"get">>)]
        ELSE IF /\ IsTag(n, "input")
                /\ InForm(soup, j)
                /\ Lower(GetAttr(n.attrs, AttrType, <<>>)) \in SubmitTypes
        THEN [n EXCEPT !.attrs = SetAttr(@, AttrDisabled, <<"disabled">>)]
        ELSE IF IsTag(n, "button") /\ InForm(soup, j)
        THEN [n EXCEPT !.attrs = SetAttr(@, AttrDisabled, <<"disabled">>)]
        ELSE n])

\* faulty variant: track is missing from the list
RemoveMediaButTrack(soup) == DecomposeEach(soup, <<"video", "audio", "source">>)

RemoveMedia(soup) == DecomposeEach(soup, MediaTags)

\* Python classes of the objects the comment filter sees
PyClass(node) == IF node.kind = "comment" THEN "Comment" ELSE "NavigableString"
IsInstance(cls, of) ==
    \/ cls = of
    \/ cls = "Comment" /\ of \in {"PreformattedString", "NavigableString"}
\* type(soup.Comment): soup.Comment is soup.find("Comment"), a Tag or None
TypeOfSoupComment(soup) ==
    IF \E i \in 1..Len(soup) : IsTag(soup[i], "Comment") THEN "Tag" ELSE "NoneType"

StripComments(soup) ==
    FilterIdx(soup, {j \in 1..Len(soup) :
        ~(soup[j].kind # "tag" /\ IsInstance(PyClass(soup[j]), TypeOfSoupComment(soup)))})

Notice(d) == << TagNode("div", << <<AttrStyle, NoticeStyle>> >>, d),
                TextNode(<<TextTok(NoticeText)>>, d + 1) >>

HasBody(soup) == \E i \in 1..Len(soup) : IsTag(soup[i], "body")
BodyIndex(soup) ==
    CHOOSE i \in 1..Len(soup) :
        IsTag(soup[i], "body") /\ \A j \in 1..(i-1) : ~IsTag(soup[j], "body")

\* faulty variant: the notice always goes to the top of the document
AddNoticeAtTop(soup) == InsertAt(soup, 0, Notice(0))

AddNotice(soup) ==
    IF HasBody(soup)
    THEN InsertAt(soup, BodyIndex(soup), Notice(soup[BodyIndex(soup)].depth + 1))
    ELSE InsertAt(soup, 0, Notice(0))

StrictStages(soup) ==
    AddNotice(StripComments(RemoveMedia(DisableForms(StripEventHandlers(StripSrc(
        NeutralizeHrefs(NeutralizeImages(StripSrcset(RemoveLinkMeta(
            RemoveDangerousTags(soup)))))))))))

sanitize_html_(text) == Serialize(StrictStages(Parse(text)))

\* ---------------------------------------------------- sanitize_html stages
RewriteHyperlinks(soup) ==
    Tuple([i \in 1..Len(soup) |->
        IF IsTag(soup[i], "a") /\ HasAttr(soup[i].attrs, AttrHref)
        THEN LET original == GetAttr(soup[i].attrs, AttrHref, <<>>)
             IN IF StartsWith(original, "#")
                THEN soup[i]
                ELSE WithAttrs(soup[i], SetAttr(soup[i].attrs, AttrHref, <<MARK>> \o original))
        ELSE soup[i]])

\* faulty variant: the src is rewritten only where the alt text is set
RewriteImagesWithoutAlt(soup) ==
    Tuple([i \in 1..Len(soup) |->
        IF IsTag(soup[i], "img") /\ HasAttr(soup[i].attrs, AttrSrc)
        THEN LET original == GetAttr(soup[i].attrs, AttrSrc, <<>>)
             IN IF GetAttr(soup[i].attrs, AttrAlt, <<>>) = <<>>
                THEN WithAttrs(soup[i],
                        SetAttr(SetAttr(soup[i].attrs, AttrSrc, <<MARK>> \o original),
                                AttrAlt, ImageDisabled))
                ELSE soup[i]
        ELSE soup[i]])

RewriteImages(soup) ==
    Tuple([i \in 1..Len(soup) |->
        IF IsTag(soup[i], "img") /\ HasAttr(soup[i].attrs, AttrSrc)
        THEN LET original == GetAttr(soup[i].attrs, AttrSrc, <<>>)
                 rewritten == SetAttr(soup[i].attrs, AttrSrc, <<MARK>> \o original)
             IN IF GetAttr(rewritten, AttrAlt, <<>>) = <<>>
                THEN WithAttrs(soup[i], SetAttr(rewritten, AttrAlt, ImageDisabled))
                ELSE WithAttrs(soup[i], rewritten)
        ELSE soup[i]])

LightStages(soup) == RewriteImages(RewriteHyperlinks(soup))

sanitize_html(text) == Serialize(LightStages(Parse(text)))

\* ------------------------------------------------------- sanitizer inputs
HttpUrl == <<"http://evil.test/x">>
OnClick == <<"on", "click">>
OnLoadUpper == <<"ON", "LOAD">>

CommonTokens ==
    {StartTok("DIV", << <<OnClick, <<"steal()">>>> >>),
     StartTok("body", <<>>),
     TextTok("hi"),
     EndTok("div")}

ScriptTokens ==
    {StartTok("script", <<>>), EndTok("script"), StartTok("iframe", <<>>), CommentTok("c")}

EmbedTokens ==
    {StartTok(n, <<>>) : n \in {"object", "embed", "noscript", "base"}}

HeadTokens ==
    {StartTok(n, <<>>) : n \in {"link", "meta", "source", "track"}}

MediaTokens ==
    {StartTok("video", <<>>), StartTok("audio", <<>>), CommentTok("c"), StartTok("Comment", <<>>)}

LinkTokens ==
    {StartTok("a", << <<AttrHref, v>> >>) :
        v \in {HttpUrl, <<"#", "top">>, <<>>, <<"javascript:", "f()">>}}

ImageTokens ==
    {StartTok("img", << <<AttrSrc, HttpUrl>>, <<OnLoadUpper, <<"f()">>>> >>),
     StartTok("img", << <<AttrSrcset, HttpUrl>>, <<AttrAlt, <<"pic">>>> >>),
     StartTok("img", << <<AttrSrc, HttpUrl>>, <<AttrAlt, <<"pic">>>> >>),
     StartTok("a", << <<AttrHref, <<"mailto:", "a@b">>>> >>)}

FormTokens ==
    {StartTok("form", << <<AttrAction, HttpUrl>>, <<AttrMethod, <<"post">>>> >>),
     StartTok("input", << <<AttrType, <<"SUBMIT">>>> >>),
     StartTok("button", << <<AttrType, <<"reset">>>> >>),
     EndTok("form")}

ControlTokens ==
    {StartTok("form", <<>>),
     StartTok("input", <<>>),
     StartTok("input", << <<AttrType, <<"text">>>> >>),
     StartTok("button", <<>>),
     StartTok("button", << <<AttrType, <<"submit">>>>, <<AttrDisabled, <<>>>> >>)}

\* the inputs are drawn family by family: the tokens of one family plus the common ones
Families == {ScriptTokens, EmbedTokens, HeadTokens, MediaTokens,
             LinkTokens, ImageTokens, FormTokens, ControlTokens}

SeqsUpTo(S, n) == UNION {[1..m -> S] : m \in 0..n}

Inputs == UNION {SeqsUpTo(f \cup CommonTokens, MaxLen) : f \in Families}

PageTokens ==
    {StartTok("script", <<>>),
     StartTok("iframe", << <<AttrSrc, HttpUrl>> >>),
     StartTok("a", << <<AttrHref, HttpUrl>> >>),
     StartTok("img", << <<AttrSrc, HttpUrl>> >>),
     StartTok("div", <<>>),
     TextTok("hi")}

Pages == SeqsUpTo(PageTokens, MaxLen)

\* ------------------------------------------------ calls of the sanitizers
Sanitizer(m, text) == IF m = "strict" THEN sanitize_html_(text) ELSE sanitize_html(text)

FnInit ==
    /\ html \in Inputs
    /\ mode \in {"strict", "light"}
    /\ outs = <<>>
    /\ pc = "fn"
    /\ user_input = <<>>
    /\ sanitized = None
    /\ viewer = <<>>
    /\ messages = <<>>

\* out = sanitize(html)
CallSanitizer ==
    /\ pc = "fn"
    /\ outs = <<>>
    /\ outs' = <<Sanitizer(mode, html)>>
    /\ UNCHANGED <<html, mode, pc, user_input, sanitized, viewer, messages>>

\* out2 = sanitize(out)
CallAgain ==
    /\ pc = "fn"
    /\ Len(outs) = 1
    /\ outs' = Append(outs, Sanitizer(mode, outs[1]))
    /\ UNCHANGED <<html, mode, pc, user_input, sanitized, viewer, messages>>

FnNext == CallSanitizer \/ CallAgain

FnSpec == FnInit /\ [][FnNext]_vars

\* ---------------------------------------------------------- user input
\* user_input is kept split at "://"; a URL is "https://" followed by the
\* lexemes of its last part, the host first unless the part starts with a path
PathLexemes == {"/page", "/search?q=x"}
GoogleHosts == {"www.google.com"}

UserInputs ==
    { << <<>> >>,
      << <<"example.com">> >>,
      << <<"https">>, <<"abc">>, <<"example.com", "/page">> >>,
      << <<"https">>, <<"abc">>, <<"www.google.com", "/search?q=x">> >>,
      << <<"https">>, <<" ">> >>,
      << <<"https">>, <<"/page">> >> }

Strip(s) ==
    LET solid == {i \in 1..Len(s) : s[i] # " "}
    IN IF solid = {} THEN <<>>
       ELSE SubSeq(s, CHOOSE i \in solid : \A j \in solid : i <= j,
                      CHOOSE i \in solid : \A j \in solid : j <= i)

normalize_input_to_url(input) ==
    LET parts == input
        last == Strip(parts[Len(parts)])
    IN IF last = <<>> THEN <<>> ELSE <<"https://">> \o last

Netloc(url) ==
    IF Len(url) >= 2 /\ url[1] = "https://" /\ url[2] \notin PathLexemes THEN url[2] ELSE ""

is_valid_url(url) == StartsWith(url, "https://") /\ Netloc(url) # ""

\* ------------------------------------------------------- submit handler
FallbackDocument == <<StartTok("p", <<>>), TextTok("Unable to sanitize content."), EndTok("p")>>

Init ==
    /\ pc = "idle"
    /\ user_input = << <<>> >>
    /\ html = None
    /\ sanitized = None
    /\ viewer = <<>>
    /\ messages = <<>>
    /\ outs = <<>>
    /\ mode = "light"

\* the user presses Fetch: validation of the input up to the fetch
Submit ==
    /\ pc = "idle"
    /\ \E typed \in UserInputs :
        /\ user_input' = typed
        /\ IF typed = << <<>> >> \/ Len(typed) < 2
           THEN /\ messages' = Append(messages, "error: no ://")
                /\ pc' = "done"
           ELSE IF ~is_valid_url(normalize_input_to_url(typed))
           THEN /\ messages' = Append(messages, "error: invalid url")
                /\ pc' = "done"
           ELSE /\ messages' = Append(messages, "info: fetching")
                /\ pc' = "fetch"
    /\ UNCHANGED <<html, sanitized, viewer, outs, mode>>

\* fetch_url returns: html = resp.text
FetchReturns ==
    /\ pc = "fetch"
    /\ \E text \in Pages : html' = text
    /\ pc' = "fetched"
    /\ UNCHANGED <<user_input, sanitized, viewer, messages, outs, mode>>

\* fetch_url raises RequestException
FetchRaises ==
    /\ pc = "fetch"
    /\ IF Netloc(normalize_input_to_url(user_input)) \in GoogleHosts
       THEN /\ messages' = Append(messages, "warning: google fallback")
            /\ pc' = "fallback"
            /\ html' = html
       ELSE /\ messages' = Append(messages, "error: fetch failed")
            /\ html' = None
            /\ pc' = "fetched"
    /\ UNCHANGED <<user_input, sanitized, viewer, outs, mode>>

\* google_fallback_search returns
FallbackReturns ==
    /\ pc = "fallback"
    /\ \E text \in Pages : html' = text
    /\ pc' = "fetched"
    /\ UNCHANGED <<user_input, sanitized, viewer, messages, outs, mode>>

\* google_fallback_search raises RequestException
FallbackRaises ==
    /\ pc = "fallback"
    /\ messages' = Append(messages, "error: fallback failed")
    /\ html' = None
    /\ pc' = "fetched"
    /\ UNCHANGED <<user_input, sanitized, viewer, outs, mode>>

\* if html: is false (None or the empty text): nothing is rendered
NothingToRender ==
    /\ pc = "fetched"
    /\ html = None \/ html = <<>>
    /\ pc' = "done"
    /\ UNCHANGED <<html, user_input, sanitized, viewer, messages, outs, mode>>

\* the try succeeds: sanitized = sanitize_html(html), then the render
RenderSanitized ==
    /\ pc = "fetched"
    /\ html # None /\ html # <<>>
    /\ sanitized' = sanitize_html(html)
    /\ messages' = Append(messages, "success: rendering")
    /\ viewer' = Append(viewer, sanitized')
    /\ pc' = "done"
    /\ UNCHANGED <<html, user_input, outs, mode>>

\* faulty variant: the except branch falls back to the fetched text
RenderRawOnError ==
    /\ pc = "fetched"
    /\ html # None /\ html # <<>>
    /\ sanitized' = html
    /\ messages' = messages \o <<"error: sanitizing", "success: rendering">>
    /\ viewer' = Append(viewer, sanitized')
    /\ pc' = "done"
    /\ UNCHANGED <<html, user_input, outs, mode>>

\* sanitize_html raises: the except branch, then the render
RenderFallback ==
    /\ pc = "fetched"
    /\ html # None /\ html # <<>>
    /\ sanitized' = FallbackDocument
    /\ messages' = messages \o <<"error: sanitizing", "success: rendering">>
    /\ viewer' = Append(viewer, sanitized')
    /\ pc' = "done"
    /\ UNCHANGED <<html, user_input, outs, mode>>

\* the next interaction runs the script again from the top
Rerun ==
    /\ pc = "done"
    /\ pc' = "idle"
    /\ user_input' = << <<>> >>
    /\ html' = None
    /\ sanitized' = None
    /\ viewer' = <<>>
    /\ messages' = <<>>
    /\ UNCHANGED <<outs, mode>>

Next ==
    \/ Submit
    \/ FetchReturns
    \/ FetchRaises
    \/ FallbackReturns
    \/ FallbackRaises
    \/ NothingToRender
    \/ RenderSanitized
    \/ RenderFallback
    \/ Rerun

Spec == Init /\ [][Next]_vars

\* ================================================================ claims
\* Vocabulary of the claims: the documents are read back with Parse, the
\* way the viewer reads the string it is given.
ForbiddenNames == {"script", "iframe", "object", "embed", "noscript", "base",
                   "link", "meta", "video", "audio", "source", "track"}
Absent == <<"(no such attribute)">>
ExemptHref(v) == StartsWith(v, "#") \/ StartsWith(v, "mailto:") \/ StartsWith(v, "javascript:")

HasForbidden(soup) ==
    \E i \in 1..Len(soup) : soup[i].kind = "tag" /\ soup[i].name \in ForbiddenNames

\* node j is neither a forbidden element nor inside one
Survives(soup, j) ==
    ~\E i \in 1..j : /\ soup[i].kind = "tag" /\ soup[i].name \in ForbiddenNames
                     /\ (i = j \/ IsDesc(soup, j, i))

\* the elements named in names, in document order, each with whether a form encloses it
ElementsNamed(soup, names, survivorsOnly) ==
    LET picked == FilterIdx([j \in 1..Len(soup) |-> j], {j \in 1..Len(soup) :
                    /\ soup[j].kind = "tag" /\ soup[j].name \in names
                    /\ (survivorsOnly => Survives(soup, j))})
    IN Tuple([n \in 1..Len(picked) |-> [name |-> soup[picked[n]].name,
                                        attrs |-> soup[picked[n]].attrs,
                                        inform |-> InForm(soup, picked[n])]])

\* C1: the output of sanitize_html_ holds no script, iframe, object, embed, noscript,
\* base, link, meta, video, audio, source or track element at any depth.
C1_NoForbiddenElement ==
    mode = "strict" =>
        \A k \in 1..Len(outs) : \A soup \in {Parse(outs[k])} : ~HasForbidden(soup)

\* a forbidden element nested inside another element of the input has been sanitized away
C1_Witness ==
    /\ mode = "strict" /\ Len(outs) = 1
    /\ \E soup \in {Parse(html)} : \E i \in 1..Len(soup) :
          /\ soup[i].kind = "tag" /\ soup[i].name \in ForbiddenNames
          /\ soup[i].depth >= 2

\* C2: what the application hands to the viewer is the fallback paragraph or a
\* document without any forbidden element.
C2_ViewerInert ==
    \A n \in 1..Len(viewer) :
        \/ viewer[n] = FallbackDocument
        \/ \A soup \in {Parse(viewer[n])} : ~HasForbidden(soup)

\* C3: in the output of sanitize_html_ no element carries an attribute whose name
\* case-insensitively starts with "on".
C3_NoEventHandler ==
    mode = "strict" =>
        \A k \in 1..Len(outs) : \A n \in 1..Len(outs[k]) :
            \A a \in 1..Len(outs[k][n].attrs) :
                ~StartsWith(Lower(outs[k][n].attrs[a][1]), "on")

\* an element other than img carried a handler, and the element is still in the output
C3_Witness ==
    /\ mode = "strict" /\ Len(outs) = 1
    /\ \E soup \in {Parse(html)} : \E i \in 1..Len(soup) :
          /\ soup[i].kind = "tag" /\ soup[i].name = "div"
          /\ HasAttr(soup[i].attrs, OnClick)
    /\ \E n \in 1..Len(outs[1]) : outs[1][n].k = "start" /\ outs[1][n].name = "div"
                                   /\ outs[1][n].attrs = <<>>

\* C4: every a element whose href does not start with "#", "mailto:" or "javascript:"
\* comes out with href "#" (sanitize_html_) or with href "https://noice://" followed by
\* the original value (sanitize_html), never with the original value, the empty one included.
C4_HrefNeutralized ==
    Len(outs) = 1 =>
        \A before \in {ElementsNamed(Parse(html), {"a"}, mode = "strict")} :
        \A after \in {ElementsNamed(Parse(outs[1]), {"a"}, FALSE)} :
            /\ Len(after) = Len(before)
            /\ \A n \in 1..Len(before) :
                 \A old \in {GetAttr(before[n].attrs, AttrHref, Absent)} :
                 \A new \in {GetAttr(after[n].attrs, AttrHref, Absent)} :
                    (old # Absent /\ ~ExemptHref(old)) =>
                        /\ new # old
                        /\ mode = "strict" => new = <<"#">>
                        /\ mode = "light" => new = <<"https://noice://">> \o old

\* an a element with an empty href has gone through sanitize_html_
C4_Witness ==
    /\ mode = "strict" /\ Len(outs) = 1
    /\ \E n \in 1..Len(html) :
          /\ html[n].k = "start" /\ html[n].name = "a"
          /\ html[n].attrs = << <<AttrHref, <<>>>> >>
    /\ \E n \in 1..Len(outs[1]) : outs[1][n].k = "start" /\ outs[1][n].name = "a"

\* C5: every img of the output has no src (sanitize_html_) or a src that starts with
\* "https://noice://" (sanitize_html); none keeps its original src.
C5_ImgSrcInert ==
    Len(outs) = 1 =>
        \A before \in {ElementsNamed(Parse(html), {"img"}, mode = "strict")} :
        \A after \in {ElementsNamed(Parse(outs[1]), {"img"}, FALSE)} :
            /\ Len(after) = Len(before)
            /\ \A n \in 1..Len(after) :
                 \A old \in {GetAttr(before[n].attrs, AttrSrc, Absent)} :
                 \A new \in {GetAttr(after[n].attrs, AttrSrc, Absent)} :
                    /\ mode = "strict" => new = Absent
                    /\ mode = "light" =>
                          /\ new = Absent \/ StartsWith(new, "https://noice://")
                          /\ old # Absent => new # old /\ new = <<"https://noice://">> \o old

\* an img with a src and an alt text has gone through sanitize_html
C5_Witness ==
    /\ mode = "light" /\ Len(outs) = 1
    /\ \E n \in 1..Len(html) :
          /\ html[n].k = "start" /\ html[n].name = "img"
          /\ HasAttr(html[n].attrs, AttrSrc) /\ HasAttr(html[n].attrs, AttrAlt)

\* the type a browser gives the control: a missing input type is text, a button is a
\* submit button unless its type says reset or button
EffectiveType(c) ==
    LET t == Lower(GetAttr(c.attrs, AttrType, <<>>))
    IN IF c.name = "input"
       THEN (IF t = <<>> THEN <<"text">> ELSE t)
       ELSE (IF t \in {<<"reset">>, <<"button">>} THEN t ELSE <<"submit">>)

\* C6 as claimed: of the input and button elements that were not disabled, sanitize_html_
\* disables exactly those inside a form whose effective type is submit, image or button.
C6_DisabledByEffectiveType ==
    (mode = "strict" /\ Len(outs) = 1) =>
        \A before \in {ElementsNamed(Parse(html), {"input", "button"}, TRUE)} :
        \A after \in {ElementsNamed(Parse(outs[1]), {"input", "button"}, FALSE)} :
            /\ Len(after) = Len(before)
            /\ \A n \in 1..Len(before) :
                 ~HasAttr(before[n].attrs, AttrDisabled) =>
                    (HasAttr(after[n].attrs, AttrDisabled)
                        <=> (before[n].inform /\ EffectiveType(before[n]) \in SubmitTypes))

\* C6 as amended: inside a form, an input is disabled exactly when its type, lower-cased,
\* is submit, image or button, and every button is disabled whatever its type; outside a
\* form nothing is disabled.
C6_DisabledInputsAndAllButtons ==
    (mode = "strict" /\ Len(outs) = 1) =>
        \A before \in {ElementsNamed(Parse(html), {"input", "button"}, TRUE)} :
        \A after \in {ElementsNamed(Parse(outs[1]), {"input", "button"}, FALSE)} :
            /\ Len(after) = Len(before)
            /\ \A n \in 1..Len(before) :
                 ~HasAttr(before[n].attrs, AttrDisabled) =>
                    (HasAttr(after[n].attrs, AttrDisabled)
                        <=> /\ before[n].inform
                            /\ \/ before[n].name = "button"
                               \/ Lower(GetAttr(before[n].attrs, AttrType, <<>>))
                                      \in {<<"submit">>, <<"image">>, <<"button">>})

\* a form with an upper-case submit input and a reset button has been sanitized
C6_Witness ==
    /\ mode = "strict" /\ Len(outs) = 1
    /\ \E before \in {ElementsNamed(Parse(html), {"input", "button"}, TRUE)} :
          \E n, m \in 1..Len(before) :
             /\ before[n].inform /\ before[m].inform
             /\ before[n].name = "input"
             /\ GetAttr(before[n].attrs, AttrType, <<>>) = <<"SUBMIT">>
             /\ before[m].name = "button"
             /\ GetAttr(before[m].attrs, AttrType, <<>>) = <<"reset">>

\* the notice element and its text, as they are read back at depth d
IsNoticeAt(soup, i, d) ==
    /\ i + 1 <= Len(soup)
    /\ soup[i] = TagNode("div", << <<AttrStyle, NoticeStyle>> >>, d)
    /\ soup[i+1] = TextNode(<<TextTok(NoticeText)>>, d + 1)

\* where the notice of the latest call stands: below the first body, else at the top
NoticePlace(soup) ==
    IF \E i \in 1..Len(soup) : IsTag(soup[i], "body")
    THEN (CHOOSE i \in 1..Len(soup) :
             IsTag(soup[i], "body") /\ \A j \in 1..(i-1) : ~IsTag(soup[j], "body")) + 1
    ELSE 1

WithoutLatestNotice(soup) ==
    SubSeq(soup, 1, NoticePlace(soup) - 1) \o SubSeq(soup, NoticePlace(soup) + 2, Len(soup))

\* C7 as claimed: for both sanitizers a second pass over the output gives the same
\* document, up to the one more notice of sanitize_html_.
C7_SecondPassSame ==
    Len(outs) = 2 =>
        \A first \in {Parse(outs[1])} : \A second \in {Parse(outs[2])} :
            IF mode = "strict"
            THEN WithoutLatestNotice(second) = first
            ELSE second = first

\* what a second pass of sanitize_html does to one element
PrefixedAgain(node) ==
    IF node.kind = "tag" /\ node.name = "a" /\ HasAttr(node.attrs, AttrHref)
          /\ ~StartsWith(GetAttr(node.attrs, AttrHref, <<>>), "#")
    THEN [node EXCEPT !.attrs =
            SetAttr(@, AttrHref, <<"https://noice://">> \o GetAttr(node.attrs, AttrHref, <<>>))]
    ELSE IF node.kind = "tag" /\ node.name = "img" /\ HasAttr(node.attrs, AttrSrc)
    THEN [node EXCEPT !.attrs =
            SetAttr(@, AttrSrc, <<"https://noice://">> \o GetAttr(node.attrs, AttrSrc, <<>>))]
    ELSE node

\* C7 as amended: a second pass of sanitize_html_ gives the same document with one more
\* notice; a second pass of sanitize_html prefixes "https://noice://" once more to every
\* a href that does not start with "#" and to every img src, and changes nothing else.
C7_SecondPass ==
    Len(outs) = 2 =>
        \A first \in {Parse(outs[1])} : \A second \in {Parse(outs[2])} :
            IF mode = "strict"
            THEN /\ IsNoticeAt(second, NoticePlace(second), second[NoticePlace(second)].depth)
                 /\ WithoutLatestNotice(second) = first
            ELSE /\ Len(second) = Len(first)
                 /\ \A i \in 1..Len(first) : second[i] = PrefixedAgain(first[i])

\* sanitize_html_ has run twice on a document with a link, or a form, that the first pass rewrote
C7_Witness ==
    /\ mode = "strict" /\ Len(outs) = 2
    /\ \E n \in 1..Len(html) :
          /\ html[n].k = "start" /\ html[n].name \in {"a", "form"}
          /\ html[n] \notin {outs[1][m] : m \in 1..Len(outs[1])}
    /\ \E n \in 1..Len(outs[2]) : outs[2][n].k = "start" /\ outs[2][n].name \in {"a", "form"}

\* C8: when sanitize_html raises, the handler renders the fallback paragraph, once, and
\* not the fetched text; the run ends normally.
C8_FallbackRendered ==
    (\E n \in 1..Len(messages) : messages[n] = "error: sanitizing") =>
        /\ pc = "done"
        /\ sanitized = FallbackDocument
        /\ viewer = <<FallbackDocument>>
        /\ viewer[1] # html

\* the sanitizer raised on a fetched page that holds a script
C8_Witness ==
    /\ pc = "done"
    /\ \E n \in 1..Len(messages) : messages[n] = "error: sanitizing"
    /\ html # None
    /\ \E n \in 1..Len(html) : html[n].k = "start" /\ html[n].name = "script"

\* C9: the output of sanitize_html_ holds no comment node at any depth.
C9_NoComment ==
    mode = "strict" =>
        \A k \in 1..Len(outs) : \A soup \in {Parse(outs[k])} :
            \A i \in 1..Len(soup) : soup[i].kind # "comment"

\* C10: each call of sanitize_html_ puts one notice in front of the children of the
\* first body, or of the root when there is no body; the output is never empty and for
\* the empty text it is the notice alone.
C10_NoticeFirst ==
    mode = "strict" =>
        \A k \in 1..Len(outs) : \A soup \in {Parse(outs[k])} :
            /\ outs[k] # <<>>
            /\ IsNoticeAt(soup, NoticePlace(soup),
                          IF NoticePlace(soup) = 1 THEN 0 ELSE soup[NoticePlace(soup) - 1].depth + 1)
            /\ Cardinality({i \in 1..Len(soup) : IsNoticeAt(soup, i, soup[i].depth)}) = k
            /\ (k = 1 /\ html = <<>>) =>
                  outs[1] = <<StartTok("div", << <<AttrStyle, NoticeStyle>> >>),
                              TextTok(NoticeText), EndTok("div")>>

\* the document sanitized has a body that is not its first node
C10_Witness ==
    /\ mode = "strict" /\ Len(outs) = 1
    /\ \E soup \in {Parse(outs[1])} : NoticePlace(soup) > 2

====
